---- MODULE Spec2Model ----
(***************************************************************************)
(* The frame loop of src/main.rs: a ball and "Dave" driven by the d-pad,   *)
(* a static three-segment paddle, and agb's managed object store whose     *)
(* attribute writes are staged until object.commit().                      *)
(*                                                                         *)
(* One action per statement group of main's loop, in program order (pc).   *)
(* The environment is the player: what input.update() reads.               *)
(***************************************************************************)
EXTENDS Integers, FiniteSets, Sequences, TLC

(* agb::display::WIDTH and HEIGHT, the GBA screen. *)
WIDTH == 240
HEIGHT == 160

(* Number of frames in which the player may press anything (Spec). *)
MaxFrames == 4

(* Paddle set_position is exercised on coordinates -1 .. PaddleRange. *)
PaddleRange == 3

VARIABLES
    pc,           \* the statement group of main's loop to run next
    ball_x, ball_y, x_velocity, y_velocity,
    dave_x, dave_y, dave_vel_x, dave_vel_y,
    input,        \* ButtonController: the previous and the current reading
    object,       \* OamManaged: staged attributes of every sprite object
    display,      \* what the last object.commit() put on the screen
    frame,        \* loop iterations completed, capped at MaxFrames
    mode,         \* the player: "free", "held" or "released"
    twin          \* SpecTwin: a second run at the top of the current iteration

vars == <<pc, ball_x, ball_y, x_velocity, y_velocity,
          dave_x, dave_y, dave_vel_x, dave_vel_y,
          input, object, display, frame, mode, twin>>

position == <<ball_x, ball_y, dave_x, dave_y>>
velocity == <<x_velocity, y_velocity, dave_vel_x, dave_vel_y>>

----------------------------------------------------------------------------
(* Pure helpers *)

(* i32 -> u16 with `as`: the low 16 bits. *)
AsU16(v) == v % 65536

(* A clamp that forgets the lower bound. *)
ClampUpperOnly(v, lo, hi) == IF v > hi THEN hi ELSE v

(* Ord::clamp(self, min, max) *)
Clamp(v, lo, hi) == IF v < lo THEN lo ELSE IF v > hi THEN hi ELSE v

(* A reading of the buttons the loop looks at: x_tri(), y_tri() and A. *)
Tri == {-1, 0, 1}
Snapshots == [x : Tri, y : Tri, a : BOOLEAN]
Released == [x |-> 0, y |-> 0, a |-> FALSE]

(* The Tri cast taken as the variant's index 0, 1, 2 instead of -1, 0, 1. *)
ReadAxesAsIndex(snap) == <<snap.x + 1, snap.y + 1>>

(* x_velocity = x_tri; y_velocity = y_tri *)
ReadAxes(snap) == <<snap.x, snap.y>>

(* The A branch doubling only the x component. *)
FastModifierXOnly(snap, vx, vy) ==
    IF snap.a THEN <<vx * 2, vy>> ELSE <<vx, vy>>

(* if is_pressed(A) { vx = vx*2; vy = vy*2 } *)
FastModifier(snap, vx, vy) ==
    IF snap.a THEN <<vx * 2, vy * 2>> ELSE <<vx, vy>>

----------------------------------------------------------------------------
(* The managed object store *)

Sprites == {"ball", "start", "mid", "end", "dave"}

(* object.object_sprite(..): hidden, unflipped, at the origin *)
NewObject == [x |-> 0, y |-> 0, hflip |-> FALSE, vflip |-> FALSE, visible |-> FALSE]

Show(o) == [o EXCEPT !.visible = TRUE]
SetVflip(o, f) == [o EXCEPT !.vflip = f]
SetHflip(o, f) == [o EXCEPT !.hflip = f]
SetX(o, x) == [o EXCEPT !.x = x]
SetY(o, y) == [o EXCEPT !.y = y]
SetPosition(o, x, y) == [o EXCEPT !.x = x, !.y = y]

(* The end segment given the mid segment's offset. *)
PaddleSetPositionEndAtMid(obj, x, y) ==
    [obj EXCEPT !["start"] = SetPosition(@, x, y),
                !["mid"]   = SetPosition(@, x, y + 16),
                !["end"]   = SetPosition(@, x, y + 16)]

(* Paddle::set_position *)
PaddleSetPosition(obj, x, y) ==
    [obj EXCEPT !["start"] = SetPosition(@, x, y),
                !["mid"]   = SetPosition(@, x, y + 16),
                !["end"]   = SetPosition(@, x, y + 32)]

(* The vertical flip put on the start segment instead of the end segment. *)
PaddleNewFlipStart(obj, start_x, start_y) ==
    PaddleSetPosition(
        [obj EXCEPT !["start"] = Show(SetVflip(@, TRUE)),
                    !["mid"]   = Show(@),
                    !["end"]   = Show(@)],
        start_x, start_y)

(* Paddle::new *)
PaddleNew(obj, start_x, start_y) ==
    PaddleSetPosition(
        [obj EXCEPT !["start"] = Show(@),
                    !["mid"]   = Show(@),
                    !["end"]   = Show(SetVflip(@, TRUE))],
        start_x, start_y)

(* main, lines 99-137: everything before the loop *)
Constructed ==
    LET o0 == [s \in Sprites |-> NewObject]
        o1 == PaddleNew(o0, WIDTH - 16 - 8, 8)
        o2 == [o1 EXCEPT !["start"] = SetHflip(@, TRUE),
                         !["mid"]   = SetHflip(@, TRUE),
                         !["end"]   = SetHflip(@, TRUE)]
        o3 == [o2 EXCEPT !["ball"] = Show(SetY(SetX(@, 50), 50))]
    IN  [o3 EXCEPT !["dave"] = Show(SetY(SetX(@, AsU16(120)), AsU16(80)))]

----------------------------------------------------------------------------
(* No second run is followed. *)
NoTwin == [run |-> "none"]

(* The velocities initialised to 1, as before the change noted at line 123. *)
InitVelocityOne ==
    /\ pc = "integrate_ball"
    /\ ball_x = 50 /\ ball_y = 50
    /\ x_velocity = 1 /\ y_velocity = 1
    /\ dave_x = 120 /\ dave_y = 80
    /\ dave_vel_x = 0 /\ dave_vel_y = 0
    /\ \E s \in Snapshots : input = [previous |-> s, current |-> s]
    /\ object = Constructed
    /\ display = [s \in Sprites |-> NewObject]
    /\ frame = 0
    /\ mode = "free"
    /\ twin = NoTwin

(* The state on entry to the loop.  ButtonController::new() takes one      *)
(* reading for both previous and current; nothing is committed yet.        *)
Init ==
    /\ pc = "integrate_ball"
    /\ ball_x = 50 /\ ball_y = 50
    /\ x_velocity = 0 /\ y_velocity = 0
    /\ dave_x = 120 /\ dave_y = 80
    /\ dave_vel_x = 0 /\ dave_vel_y = 0
    /\ \E s \in Snapshots : input = [previous |-> s, current |-> s]
    /\ object = Constructed
    /\ display = [s \in Sprites |-> NewObject]
    /\ frame = 0
    /\ mode = "free"
    /\ twin = NoTwin

----------------------------------------------------------------------------
(* The loop body, lines 140-180 *)

(* Integrating with the velocity of the current reading: no lag. *)
IntegrateBallNoLag ==
    /\ pc = "integrate_ball"
    /\ ball_x' = Clamp(ball_x + FastModifier(input.current, input.current.x, input.current.y)[1],
                       0, WIDTH - 16)
    /\ ball_y' = Clamp(ball_y + FastModifier(input.current, input.current.x, input.current.y)[2],
                       0, HEIGHT - 16)
    /\ pc' = "read_ball"
    /\ UNCHANGED <<velocity, dave_x, dave_y, input, object, display, frame, mode, twin>>

IntegrateBall ==
    /\ pc = "integrate_ball"
    /\ ball_x' = Clamp(ball_x + x_velocity, 0, WIDTH - 16)
    /\ ball_y' = Clamp(ball_y + y_velocity, 0, HEIGHT - 16)
    /\ pc' = "read_ball"
    /\ UNCHANGED <<velocity, dave_x, dave_y, input, object, display, frame, mode, twin>>

(* The axis reading added to the velocity instead of replacing it. *)
ReadBallAccumulate ==
    /\ pc = "read_ball"
    /\ x_velocity' = x_velocity + ReadAxes(input.current)[1]
    /\ y_velocity' = y_velocity + ReadAxes(input.current)[2]
    /\ pc' = "fast_ball"
    /\ UNCHANGED <<position, dave_vel_x, dave_vel_y, input, object, display, frame, mode, twin>>

ReadBall ==
    /\ pc = "read_ball"
    /\ x_velocity' = ReadAxes(input.current)[1]
    /\ y_velocity' = ReadAxes(input.current)[2]
    /\ pc' = "fast_ball"
    /\ UNCHANGED <<position, dave_vel_x, dave_vel_y, input, object, display, frame, mode, twin>>

FastBall ==
    /\ pc = "fast_ball"
    /\ x_velocity' = FastModifier(input.current, x_velocity, y_velocity)[1]
    /\ y_velocity' = FastModifier(input.current, x_velocity, y_velocity)[2]
    /\ pc' = "push_ball"
    /\ UNCHANGED <<position, dave_vel_x, dave_vel_y, input, object, display, frame, mode, twin>>

(* input.update() called once more, at the end of Ball's block. *)
PushBallThenUpdate ==
    /\ pc = "push_ball"
    /\ object' = [object EXCEPT !["ball"] = SetY(SetX(@, AsU16(ball_x)), AsU16(ball_y))]
    /\ \E s \in Snapshots : input' = [previous |-> input.current, current |-> s]
    /\ pc' = "integrate_dave"
    /\ UNCHANGED <<position, velocity, display, frame, mode, twin>>

PushBall ==
    /\ pc = "push_ball"
    /\ object' = [object EXCEPT !["ball"] = SetY(SetX(@, AsU16(ball_x)), AsU16(ball_y))]
    /\ pc' = "integrate_dave"
    /\ UNCHANGED <<position, velocity, input, display, frame, mode, twin>>

(* Dave integrated with the velocity of the current reading: no lag. *)
IntegrateDaveNoLag ==
    /\ pc = "integrate_dave"
    /\ dave_x' = Clamp(dave_x + FastModifier(input.current, input.current.x, input.current.y)[1],
                       0, WIDTH - 16)
    /\ dave_y' = Clamp(dave_y + FastModifier(input.current, input.current.x, input.current.y)[2],
                       -8, HEIGHT - 32)
    /\ pc' = "read_dave"
    /\ UNCHANGED <<velocity, ball_x, ball_y, input, object, display, frame, mode, twin>>

(* Dave clamped with Ball's vertical bounds. *)
IntegrateDaveBallBounds ==
    /\ pc = "integrate_dave"
    /\ dave_x' = Clamp(dave_x + dave_vel_x, 0, WIDTH - 16)
    /\ dave_y' = Clamp(dave_y + dave_vel_y, 0, HEIGHT - 16)
    /\ pc' = "read_dave"
    /\ UNCHANGED <<velocity, ball_x, ball_y, input, object, display, frame, mode, twin>>

IntegrateDave ==
    /\ pc = "integrate_dave"
    /\ dave_x' = Clamp(dave_x + dave_vel_x, 0, WIDTH - 16)
    /\ dave_y' = Clamp(dave_y + dave_vel_y, -8, HEIGHT - 32)
    /\ pc' = "read_dave"
    /\ UNCHANGED <<velocity, ball_x, ball_y, input, object, display, frame, mode, twin>>

(* Dave's axes read the wrong way round. *)
ReadDaveSwapped ==
    /\ pc = "read_dave"
    /\ dave_vel_x' = ReadAxes(input.current)[2]
    /\ dave_vel_y' = ReadAxes(input.current)[1]
    /\ pc' = "fast_dave"
    /\ UNCHANGED <<position, x_velocity, y_velocity, input, object, display, frame, mode, twin>>

ReadDave ==
    /\ pc = "read_dave"
    /\ dave_vel_x' = ReadAxes(input.current)[1]
    /\ dave_vel_y' = ReadAxes(input.current)[2]
    /\ pc' = "fast_dave"
    /\ UNCHANGED <<position, x_velocity, y_velocity, input, object, display, frame, mode, twin>>

(* Dave's block without the A branch. *)
FastDaveNoDoubling ==
    /\ pc = "fast_dave"
    /\ pc' = "push_dave"
    /\ UNCHANGED <<position, velocity, input, object, display, frame, mode, twin>>

FastDave ==
    /\ pc = "fast_dave"
    /\ dave_vel_x' = FastModifier(input.current, dave_vel_x, dave_vel_y)[1]
    /\ dave_vel_y' = FastModifier(input.current, dave_vel_x, dave_vel_y)[2]
    /\ pc' = "push_dave"
    /\ UNCHANGED <<position, x_velocity, y_velocity, input, object, display, frame, mode, twin>>

(* Dave's block moving the paddle along with Dave. *)
PushDaveMovesPaddle ==
    /\ pc = "push_dave"
    /\ object' = PaddleSetPosition(
                     [object EXCEPT !["dave"] = SetY(SetX(@, AsU16(dave_x)), AsU16(dave_y))],
                     WIDTH - 16 - 8, dave_y)
    /\ pc' = "vblank"
    /\ UNCHANGED <<position, velocity, input, display, frame, mode, twin>>

(* Dave's position written straight to the screen, not staged. *)
PushDaveImmediate ==
    /\ pc = "push_dave"
    /\ object' = [object EXCEPT !["dave"] = SetY(SetX(@, AsU16(dave_x)), AsU16(dave_y))]
    /\ display' = [display EXCEPT !["dave"] = SetY(SetX(@, AsU16(dave_x)), AsU16(dave_y))]
    /\ pc' = "vblank"
    /\ UNCHANGED <<position, velocity, input, frame, mode, twin>>

PushDave ==
    /\ pc = "push_dave"
    /\ object' = [object EXCEPT !["dave"] = SetY(SetX(@, AsU16(dave_x)), AsU16(dave_y))]
    /\ pc' = "vblank"
    /\ UNCHANGED <<position, velocity, input, display, frame, mode, twin>>

(* A second commit in place of the wait. *)
CommitInsteadOfWait ==
    /\ pc = "vblank"
    /\ display' = object
    /\ pc' = "commit"
    /\ UNCHANGED <<position, velocity, input, object, frame, mode, twin>>

(* agb::display::busy_wait_for_vblank() returns when the vblank comes *)
WaitForVblank ==
    /\ pc = "vblank"
    /\ pc' = "commit"
    /\ UNCHANGED <<position, velocity, input, object, display, frame, mode, twin>>

(* The loop left after the first commit. *)
CommitThenExit ==
    /\ pc = "commit"
    /\ display' = object
    /\ pc' = "exit"
    /\ UNCHANGED <<position, velocity, input, object, frame, mode, twin>>

(* object.commit(): every staged attribute reaches the screen at once *)
Commit ==
    /\ pc = "commit"
    /\ display' = object
    /\ pc' = "update"
    /\ UNCHANGED <<position, velocity, input, object, frame, mode, twin>>

(* input.update(): current becomes previous, the buttons are read anew.    *)
(* The player presses anything during the first MaxFrames frames and lets  *)
(* go of every button afterwards.                                          *)
InputUpdate ==
    /\ pc = "update"
    /\ \E s \in (IF frame < MaxFrames THEN Snapshots ELSE {Released}) :
           input' = [previous |-> input.current, current |-> s]
    /\ frame' = IF frame < MaxFrames THEN frame + 1 ELSE frame
    /\ pc' = "integrate_ball"
    /\ UNCHANGED <<position, velocity, object, display, mode, twin>>

Frame ==
    \/ IntegrateBall \/ ReadBall \/ FastBall \/ PushBall
    \/ IntegrateDave \/ ReadDave \/ FastDave \/ PushDave
    \/ WaitForVblank \/ Commit

Next == Frame \/ InputUpdate

Spec == Init /\ [][Next]_vars

(* The same loop with the scheduling stated: busy_wait_for_vblank returns *)
(* at every vblank and no other statement blocks.                          *)
SpecFair == Init /\ [][Next]_vars /\ WF_vars(Next)

----------------------------------------------------------------------------
(* A player who holds the d-pad.  At the first input.update() the player   *)
(* presses a direction (with or without A), keeps it for as many frames as *)
(* they like, then lets go for good.  The loop is the same; only what      *)
(* input.update() reads differs.  With the direction held long enough the  *)
(* entities run into the edges of the screen.                              *)
HoldSet == {s \in Snapshots : s.x # 0 \/ s.y # 0}

InputUpdateHold ==
    /\ pc = "update"
    /\ \/ /\ mode = "free"
          /\ \E s \in HoldSet : input' = [previous |-> input.current, current |-> s]
          /\ mode' = "held"
       \/ /\ mode = "held"
          /\ input' = [previous |-> input.current, current |-> input.current]
          /\ mode' = "held"
       \/ /\ mode \in {"held", "released"}
          /\ input' = [previous |-> input.current, current |-> Released]
          /\ mode' = "released"
    /\ frame' = IF frame < MaxFrames THEN frame + 1 ELSE frame
    /\ pc' = "integrate_ball"
    /\ UNCHANGED <<position, velocity, object, display, twin>>

NextHold == Frame \/ InputUpdateHold

(* busy_wait_for_vblank returns at every vblank and nothing else blocks,   *)
(* so the loop always takes its next step.                                 *)
SpecHold == Init /\ [][NextHold]_vars /\ WF_vars(NextHold)

----------------------------------------------------------------------------
(* Paddle::set_position called with any coordinates, and object.commit().  *)
(* main calls set_position once, from Paddle::new; here a caller moves the *)
(* paddle to any (x, y) of a small grid, to check the method itself.       *)
PaddleCoords == -1 .. PaddleRange

PaddleMove ==
    /\ \E x \in PaddleCoords, y \in PaddleCoords :
           object' = PaddleSetPosition(object, x, y)
    /\ UNCHANGED <<pc, position, velocity, input, display, frame, mode, twin>>

ObjectCommit ==
    /\ display' = object
    /\ UNCHANGED <<pc, position, velocity, input, object, frame, mode, twin>>

NextPaddle == PaddleMove \/ ObjectCommit

SpecPaddle == Init /\ [][NextPaddle]_vars

----------------------------------------------------------------------------
(* Two runs side by side.  The runs read the same buttons up to some       *)
(* input.update() and different ones at that update.  The first run is the *)
(* loop above; twin is the second run as it stands at the top of the       *)
(* iteration that follows that update: the first run's state with another  *)
(* current reading.  RunFrame takes it through that iteration.             *)

(* Number of frames in which the players may press anything (SpecTwin). *)
TwinFrames == 2

(* The program's state with `reading` as the current reading. *)
TopOfLoop(previous, reading) ==
    [ball_x |-> ball_x, ball_y |-> ball_y,
     x_velocity |-> x_velocity, y_velocity |-> y_velocity,
     dave_x |-> dave_x, dave_y |-> dave_y,
     dave_vel_x |-> dave_vel_x, dave_vel_y |-> dave_vel_y,
     input |-> [previous |-> previous, current |-> reading],
     object |-> object, display |-> display]

(* Lines 141-175 in one piece: the state when the commit is done. *)
RunFrame(st) ==
    LET bx == Clamp(st.ball_x + st.x_velocity, 0, WIDTH - 16)
        by == Clamp(st.ball_y + st.y_velocity, 0, HEIGHT - 16)
        bv == FastModifier(st.input.current, ReadAxes(st.input.current)[1],
                                             ReadAxes(st.input.current)[2])
        o1 == [st.object EXCEPT !["ball"] = SetY(SetX(@, AsU16(bx)), AsU16(by))]
        dx == Clamp(st.dave_x + st.dave_vel_x, 0, WIDTH - 16)
        dy == Clamp(st.dave_y + st.dave_vel_y, -8, HEIGHT - 32)
        dv == FastModifier(st.input.current, ReadAxes(st.input.current)[1],
                                             ReadAxes(st.input.current)[2])
        o2 == [o1 EXCEPT !["dave"] = SetY(SetX(@, AsU16(dx)), AsU16(dy))]
    IN  [ball_x |-> bx, ball_y |-> by,
         x_velocity |-> bv[1], y_velocity |-> bv[2],
         dave_x |-> dx, dave_y |-> dy,
         dave_vel_x |-> dv[1], dave_vel_y |-> dv[2],
         input |-> st.input,
         object |-> o2, display |-> o2]

InitTwin ==
    /\ pc = "integrate_ball"
    /\ ball_x = 50 /\ ball_y = 50
    /\ x_velocity = 0 /\ y_velocity = 0
    /\ dave_x = 120 /\ dave_y = 80
    /\ dave_vel_x = 0 /\ dave_vel_y = 0
    /\ \E s \in Snapshots : input = [previous |-> s, current |-> s]
    /\ object = Constructed
    /\ display = [s \in Sprites |-> NewObject]
    /\ frame = 0
    /\ mode = "free"
    /\ \E s2 \in Snapshots : twin = TopOfLoop(s2, s2)

(* input.update() in both runs: each reads its own buttons. *)
InputUpdateTwin ==
    /\ pc = "update"
    /\ \E s \in (IF frame < TwinFrames THEN Snapshots ELSE {Released}),
          s2 \in (IF frame < TwinFrames THEN Snapshots ELSE {Released}) :
           /\ input' = [previous |-> input.current, current |-> s]
           /\ twin' = TopOfLoop(input.current, s2)
    /\ frame' = IF frame < TwinFrames THEN frame + 1 ELSE frame
    /\ pc' = "integrate_ball"
    /\ UNCHANGED <<position, velocity, object, display, mode>>

NextTwin == Frame \/ InputUpdateTwin

SpecTwin == InitTwin /\ [][NextTwin]_vars

----------------------------------------------------------------------------
(* Vocabulary of the properties *)

(* The velocity the frame loop is specified to derive from a reading. *)
VelOf(snap) == <<snap.x * (IF snap.a THEN 2 ELSE 1), snap.y * (IF snap.a THEN 2 ELSE 1)>>

(* A u16 handed to the object store, read back as a signed coordinate. *)
AsI16(u) == IF u >= 32768 THEN u - 65536 ELSE u

(* Program points after a statement group has run, within one iteration. *)
AfterIntegrateBall == pc \notin {"integrate_ball"}
AfterFastBall == pc \in {"push_ball", "integrate_dave", "read_dave", "fast_dave",
                         "push_dave", "vblank", "commit", "update"}
AfterPushBall == pc \in {"integrate_dave", "read_dave", "fast_dave",
                         "push_dave", "vblank", "commit", "update"}
AfterIntegrateDave == pc \in {"read_dave", "fast_dave", "push_dave", "vblank", "commit", "update"}
AfterFastDave == pc \in {"push_dave", "vblank", "commit", "update"}
AfterPushDave == pc \in {"vblank", "commit", "update"}

UpFast == [x |-> 0, y |-> -1, a |-> TRUE]

----------------------------------------------------------------------------
(* C1: whatever the player does, Ball stays within [0,224] x [0,144] and   *)
(* Dave within [0,224] x [-8,128]; an integrate step taken at x = 0 with a *)
(* leftward velocity leaves x at 0.                                        *)
C1_InBounds ==
    /\ 0 <= ball_x /\ ball_x <= 224
    /\ 0 <= ball_y /\ ball_y <= 144
    /\ 0 <= dave_x /\ dave_x <= 224
    /\ -8 <= dave_y /\ dave_y <= 128

C1_Clamping ==
    /\ []C1_InBounds
    /\ [][/\ (pc = "integrate_ball" /\ ball_x = 0 /\ x_velocity < 0) => ball_x' = 0
          /\ (pc = "integrate_dave" /\ dave_x = 0 /\ dave_vel_x < 0) => dave_x' = 0]_vars

(* Both entities in the top-left corner, pushed there in the frame before, *)
(* and a leftward and upward velocity has just been integrated again.      *)
C1_Witness ==
    /\ pc = "read_dave"
    /\ ball_x = 0 /\ ball_y = 0 /\ dave_x = 0 /\ dave_y = -8
    /\ dave_vel_x < 0 /\ dave_vel_y < 0
    /\ display["ball"].x = 0 /\ display["dave"].x = 0

----------------------------------------------------------------------------
(* C2: one-frame lag.  In every frame but the first, input.previous is the *)
(* reading the previous frame derived its velocity from and the display    *)
(* still shows the position the previous frame pushed.  The position this  *)
(* frame integrates and pushes is clamp(that position + that velocity); it *)
(* does not depend on input.current, the reading this frame derives its    *)
(* own velocity from.                                                      *)
C2_OneFrameLag ==
    frame >= 1 =>
      /\ (AfterIntegrateBall /\ pc # "update") =>
           /\ ball_x = Clamp(AsI16(display["ball"].x) + VelOf(input.previous)[1], 0, 224)
           /\ ball_y = Clamp(AsI16(display["ball"].y) + VelOf(input.previous)[2], 0, 144)
      /\ (AfterPushBall /\ pc # "update") =>
           /\ object["ball"].x = AsU16(Clamp(AsI16(display["ball"].x) + VelOf(input.previous)[1], 0, 224))
           /\ object["ball"].y = AsU16(Clamp(AsI16(display["ball"].y) + VelOf(input.previous)[2], 0, 144))
      /\ (AfterIntegrateDave /\ pc # "update") =>
           /\ dave_x = Clamp(AsI16(display["dave"].x) + VelOf(input.previous)[1], 0, 224)
           /\ dave_y = Clamp(AsI16(display["dave"].y) + VelOf(input.previous)[2], -8, 128)
      /\ (AfterPushDave /\ pc # "update") =>
           /\ object["dave"].x = AsU16(Clamp(AsI16(display["dave"].x) + VelOf(input.previous)[1], 0, 224))
           /\ object["dave"].y = AsU16(Clamp(AsI16(display["dave"].y) + VelOf(input.previous)[2], -8, 128))

(* The spec's scenario: the first frame read axis (1,0) without A and      *)
(* showed the ball at (50,50); the second frame pushes (51,50), although   *)
(* the player has meanwhile pressed something else.                        *)
C2_Witness ==
    /\ pc = "integrate_dave" /\ frame = 1
    /\ input.previous = [x |-> 1, y |-> 0, a |-> FALSE]
    /\ input.current = [x |-> -1, y |-> 1, a |-> TRUE]
    /\ display["ball"].x = 50 /\ display["ball"].y = 50
    /\ object["ball"].x = 51 /\ object["ball"].y = 50

----------------------------------------------------------------------------
(* C3: commit atomicity.  No step other than object.commit() changes what  *)
(* is displayed, also not a push of a new position; the commit displays    *)
(* the positions of Ball and Dave integrated in that frame (as the u16     *)
(* values pushed), both in the same step.                                  *)
C3_CommitAtomicity ==
    [][/\ pc # "commit" => display' = display
       /\ pc = "commit" =>
            /\ display'["ball"].x = AsU16(ball_x) /\ display'["ball"].y = AsU16(ball_y)
            /\ display'["dave"].x = AsU16(dave_x) /\ display'["dave"].y = AsU16(dave_y)]_vars

(* Ball's new position is staged, Dave's is not yet, and the display still *)
(* shows both where the previous commit put them.                          *)
C3_Witness ==
    /\ pc = "push_dave" /\ frame >= 1
    /\ object["ball"].x # display["ball"].x
    /\ object["dave"] = display["dave"]
    /\ dave_x # display["dave"].x

----------------------------------------------------------------------------
(* C4: once the fast modifier has run, a velocity is (xAxis*2, yAxis*2)    *)
(* when A is held in the current reading and (xAxis, yAxis) otherwise, for *)
(* Ball and for Dave; no component is ever larger than 2 in magnitude.     *)
C4_FastDoubling ==
    /\ AfterFastBall =>
         /\ x_velocity = input.current.x * (IF input.current.a THEN 2 ELSE 1)
         /\ y_velocity = input.current.y * (IF input.current.a THEN 2 ELSE 1)
    /\ AfterFastDave =>
         /\ dave_vel_x = input.current.x * (IF input.current.a THEN 2 ELSE 1)
         /\ dave_vel_y = input.current.y * (IF input.current.a THEN 2 ELSE 1)
    /\ \A v \in {x_velocity, y_velocity, dave_vel_x, dave_vel_y} : -2 <= v /\ v <= 2

C4_Witness ==
    /\ pc = "vblank"
    /\ input.current = [x |-> 1, y |-> -1, a |-> TRUE]
    /\ x_velocity = 2 /\ y_velocity = -2
    /\ dave_vel_x = 2 /\ dave_vel_y = -2

----------------------------------------------------------------------------
(* C5: the statement groups run in one fixed cyclic order per iteration,   *)
(* in which the vblank wait and the commit each occur once, the commit     *)
(* directly after the wait and both after Ball's and Dave's pushes; the    *)
(* wait stages nothing, and at the commit both positions of the frame are  *)
(* staged.                                                                 *)
LoopOrder ==
    <<"integrate_ball", "read_ball", "fast_ball", "push_ball",
      "integrate_dave", "read_dave", "fast_dave", "push_dave",
      "vblank", "commit", "update">>

C5_OneWaitOneCommit ==
    /\ [][\E i \in 1 .. Len(LoopOrder) :
             pc = LoopOrder[i] /\ pc' = LoopOrder[(i % Len(LoopOrder)) + 1]]_vars
    /\ [][pc = "vblank" => (object' = object /\ display' = display)]_vars
    /\ [][(display' # display) => (pc = "commit" /\ pc' = "update")]_vars
    /\ [](pc \in {"vblank", "commit"} =>
            /\ object["ball"].x = AsU16(ball_x) /\ object["ball"].y = AsU16(ball_y)
            /\ object["dave"].x = AsU16(dave_x) /\ object["dave"].y = AsU16(dave_y))

(* The wait is over, the commit is next; both entities have moved in this  *)
(* frame and their new positions are staged but not displayed.             *)
C5_Witness ==
    /\ pc = "commit" /\ frame >= 1
    /\ object["ball"] # display["ball"] /\ object["dave"] # display["dave"]
    /\ object["ball"].x = AsU16(ball_x) /\ object["dave"].y = AsU16(dave_y)

----------------------------------------------------------------------------
(* C6: only input.update() changes the readings, and it runs when the      *)
(* commit of the iteration is done and both velocities are derived.  So    *)
(* the readings are fixed from the start of an iteration to its commit,    *)
(* and a velocity integrated at the start of a frame was derived from the  *)
(* reading the update before the previous one produced (input.previous).   *)
C6_AdvanceAfterCommit ==
    /\ [][pc # "update" => input' = input]_vars
    /\ [][pc = "update" =>
            /\ input'.previous = input.current
            /\ display = object
            /\ <<x_velocity, y_velocity>> = VelOf(input.current)
            /\ <<dave_vel_x, dave_vel_y>> = VelOf(input.current)
            /\ pc' = "integrate_ball"]_vars
    /\ []((pc = "integrate_ball" /\ frame >= 1) =>
            /\ <<x_velocity, y_velocity>> = VelOf(input.previous)
            /\ <<dave_vel_x, dave_vel_y>> = VelOf(input.previous))

(* Start of a later frame: the velocity about to be integrated comes from  *)
(* the previous reading and differs from what the new reading would give.  *)
C6_Witness ==
    /\ pc = "integrate_ball" /\ frame >= 2
    /\ input.previous = [x |-> 1, y |-> 1, a |-> TRUE]
    /\ input.current = [x |-> -1, y |-> 0, a |-> FALSE]
    /\ x_velocity = 2 /\ dave_vel_y = 2

----------------------------------------------------------------------------
(* C7 (as claimed): after a push, the x and y handed to set_x and set_y    *)
(* are the entity's logical position and lie within the entity's bounds,   *)
(* also for Dave's y in [-8,-1].  The code hands `dave_y as u16`, which    *)
(* for a negative dave_y is dave_y + 65536.                                *)
C7_HandedInBounds ==
    /\ AfterPushBall =>
         /\ object["ball"].x = ball_x /\ 0 <= object["ball"].x /\ object["ball"].x <= 224
         /\ object["ball"].y = ball_y /\ 0 <= object["ball"].y /\ object["ball"].y <= 144
    /\ AfterPushDave =>
         /\ object["dave"].x = dave_x /\ 0 <= object["dave"].x /\ object["dave"].x <= 224
         /\ object["dave"].y = dave_y /\ -8 <= object["dave"].y /\ object["dave"].y <= 128

----------------------------------------------------------------------------
(* C8: with axis (0,-1) and A in the current reading Dave's derived        *)
(* velocity is (0,-2); while that velocity is integrated dave_x does not   *)
(* change and dave_y goes down as long as it is above -8 and stays at -8   *)
(* once there; if the player keeps that input for ever, dave_y is          *)
(* eventually -8 for good.                                                 *)
C8_ClampsAtMinusEight ==
    /\ []((AfterFastDave /\ input.current = UpFast) => (dave_vel_x = 0 /\ dave_vel_y = -2))
    /\ [][(pc = "integrate_dave" /\ frame >= 1 /\ input.previous = UpFast) =>
            /\ dave_x' = dave_x
            /\ dave_y > -8 => dave_y' < dave_y
            /\ dave_y = -8 => dave_y' = -8]_vars
    /\ (<>[](input.current = UpFast)) => <>[](dave_y = -8)

(* Dave went straight up from (120,80) and rests at y = -8 with the input  *)
(* still held.                                                             *)
C8_Witness ==
    /\ pc = "read_dave" /\ mode = "held"
    /\ input.previous = UpFast /\ input.current = UpFast
    /\ dave_vel_y = -2
    /\ dave_x = 120 /\ dave_y = -8 /\ AsI16(display["dave"].y) = -8

----------------------------------------------------------------------------
(* C9: an integrate step with velocity (0,0) leaves the position as it     *)
(* is, and the velocity is (0,0) whenever the previous reading had no      *)
(* direction pressed, with or without A.                                   *)
C9_IdleFrame ==
    [][/\ (pc = "integrate_ball" /\ x_velocity = 0 /\ y_velocity = 0) =>
            (ball_x' = ball_x /\ ball_y' = ball_y)
       /\ (pc = "integrate_dave" /\ dave_vel_x = 0 /\ dave_vel_y = 0) =>
            (dave_x' = dave_x /\ dave_y' = dave_y)
       /\ (pc = "integrate_ball" /\ frame >= 1 /\ input.previous.x = 0 /\ input.previous.y = 0) =>
            (ball_x' = ball_x /\ ball_y' = ball_y)
       /\ (pc = "integrate_dave" /\ frame >= 1 /\ input.previous.x = 0 /\ input.previous.y = 0) =>
            (dave_x' = dave_x /\ dave_y' = dave_y)]_vars

(* An idle frame in the bottom-right corner: nothing was pressed in the    *)
(* previous reading, both integrate steps have run, nothing moved.         *)
C9_Witness ==
    /\ pc = "read_dave" /\ mode = "released"
    /\ input.previous = Released
    /\ ball_x = 224 /\ ball_y = 144 /\ dave_x = 224 /\ dave_y = 128
    /\ display["ball"].x = 224 /\ display["dave"].y = 128

----------------------------------------------------------------------------
(* C10: every (x, y) can be passed to Paddle set_position; the call stages *)
(* (x, y), (x, y+16) and (x, y+32) on start, mid and end, changes nothing  *)
(* else of any sprite, and the display changes only by a commit.           *)
PaddleAt(obj, x, y) ==
    /\ obj["start"].x = x /\ obj["start"].y = y
    /\ obj["mid"].x = x   /\ obj["mid"].y = y + 16
    /\ obj["end"].x = x   /\ obj["end"].y = y + 32

SameButPosition(o1, o2) ==
    \A s \in Sprites :
        /\ o1[s].hflip = o2[s].hflip /\ o1[s].vflip = o2[s].vflip
        /\ o1[s].visible = o2[s].visible
        /\ s \in {"ball", "dave"} => o1[s] = o2[s]

C10_SetPosition ==
    /\ [](\A x \in PaddleCoords, y \in PaddleCoords :
            ENABLED (PaddleMove /\ PaddleAt(object', x, y)))
    /\ [][object' # object =>
            /\ PaddleAt(object', object'["start"].x, object'["start"].y)
            /\ SameButPosition(object, object')
            /\ display' = display]_vars
    /\ [][display' # display => display' = object]_vars

(* The paddle has been moved twice since the last commit; the display      *)
(* still shows it where that commit put it.                                *)
C10_Witness ==
    /\ PaddleAt(object, 3, -1)
    /\ PaddleAt(display, 0, 2)
    /\ object["end"].vflip /\ object["end"].visible /\ object["mid"].hflip

----------------------------------------------------------------------------
(* C11: on entry to the loop the paddle's segments are staged at (216,8),  *)
(* (216,24) and (216,40), all three visible and horizontally flipped, the  *)
(* end segment vertically flipped and the start segment not; no step of    *)
(* the loop changes a visibility or a flip of any segment.                 *)
Segments == {"start", "mid", "end"}

C11_Attributes ==
    /\ \A s \in Segments : object[s].visible /\ object[s].hflip
    /\ object["end"].vflip /\ ~object["start"].vflip

C11_MirroredPaddle ==
    /\ C11_Attributes
    /\ (pc = "integrate_ball" /\ frame = 0) => PaddleAt(object, 216, 8)

(* Four frames of input later, with Ball and Dave moved and committed, the *)
(* segments still carry the attributes given at creation.                  *)
C11_Witness ==
    /\ pc = "update" /\ frame = MaxFrames
    /\ ball_x # 50 /\ dave_y # 80
    /\ display["ball"].x = AsU16(ball_x)
    /\ C11_Attributes
    /\ ~object["mid"].vflip

----------------------------------------------------------------------------
(* C12: no step of the loop writes to a paddle segment.  The staged        *)
(* segments stay as created, a displayed segment is displayed as created,  *)
(* and a step changes nothing of the staged objects but the x and y of     *)
(* Ball and of Dave.                                                       *)
C12_StaticPaddle ==
    /\ [](\A s \in Segments :
            /\ object[s] = Constructed[s]
            /\ display[s].visible => display[s] = Constructed[s])
    /\ [][/\ \A s \in Segments : object'[s] = object[s]
          /\ \A s \in {"ball", "dave"} :
                /\ object'[s].visible = object[s].visible
                /\ object'[s].hflip = object[s].hflip
                /\ object'[s].vflip = object[s].vflip]_vars

(* Ball and Dave are displayed away from their start positions; the        *)
(* paddle is displayed where it was created.                               *)
C12_Witness ==
    /\ pc = "update" /\ frame >= 2
    /\ display["ball"].x # 50 /\ display["ball"].y # 50
    /\ display["dave"].x # 120 /\ display["dave"].y # 80
    /\ PaddleAt(display, 216, 8) /\ PaddleAt(object, 216, 8)

----------------------------------------------------------------------------
(* The position an entity had before this frame's integrate step: the one  *)
(* the previous commit displayed, or the start position in the first       *)
(* frame.  Meaningful once the entity's integrate step has run and until   *)
(* the commit.                                                             *)
BallBefore == IF frame = 0 THEN <<50, 50>>
              ELSE <<AsI16(display["ball"].x), AsI16(display["ball"].y)>>
DaveBefore == IF frame = 0 THEN <<120, 80>>
              ELSE <<AsI16(display["dave"].x), AsI16(display["dave"].y)>>

BothIntegrated == pc \in {"read_dave", "fast_dave", "push_dave", "vblank", "commit"}

Integrated == IF frame = 0 THEN <<0, 0>> ELSE VelOf(input.previous)

InRange(v, lo, hi) == lo <= v /\ v <= hi

----------------------------------------------------------------------------
(* C14: whatever the first reading is, the first frame integrates, pushes  *)
(* and commits the start positions (50,50) and (120,80), and the display   *)
(* shows them until the second commit.                                     *)
ShownAt(obj, bx, by, dx, dy) ==
    /\ obj["ball"].x = bx /\ obj["ball"].y = by
    /\ obj["dave"].x = dx /\ obj["dave"].y = dy

C14_FirstFrame ==
    /\ frame = 0 =>
         /\ position = <<50, 50, 120, 80>>
         /\ ShownAt(object, 50, 50, 120, 80)
         /\ pc = "update" => ShownAt(display, 50, 50, 120, 80)
    /\ (frame = 1 /\ pc # "update") => ShownAt(display, 50, 50, 120, 80)

(* The first reading was right and up with A; the second commit is the     *)
(* first to display its effect.                                            *)
C14_Witness ==
    /\ frame = 1 /\ pc = "update"
    /\ input.previous = [x |-> 1, y |-> -1, a |-> TRUE]
    /\ ShownAt(display, 52, 48, 122, 78)

----------------------------------------------------------------------------
(* C16: every velocity component is within -2 .. 2 in every state; the     *)
(* axis read replaces the velocity by the current axis pair, whatever it   *)
(* was, and the modifier then makes it the velocity of the current         *)
(* reading: nothing of an earlier frame remains.                           *)
Speeds == -2 .. 2

C16_VelocityRange ==
    /\ velocity \in Speeds \X Speeds \X Speeds \X Speeds
    /\ pc = "fast_ball" => <<x_velocity, y_velocity>> = <<input.current.x, input.current.y>>
    /\ pc = "fast_dave" => <<dave_vel_x, dave_vel_y>> = <<input.current.x, input.current.y>>
    /\ pc = "push_ball" => <<x_velocity, y_velocity>> = VelOf(input.current)
    /\ pc = "push_dave" => <<dave_vel_x, dave_vel_y>> = VelOf(input.current)
    /\ (frame = 0 /\ pc = "integrate_ball") => velocity = <<0, 0, 0, 0>>

(* Between Ball's axis read and its doubling: Ball's velocity is the new   *)
(* axis pair, Dave's is still the full-speed one of the frame before.      *)
C16_Witness ==
    /\ pc = "fast_ball" /\ frame >= 1
    /\ input.previous = [x |-> -1, y |-> -1, a |-> TRUE]
    /\ input.current = [x |-> 1, y |-> 1, a |-> TRUE]
    /\ <<x_velocity, y_velocity>> = <<1, 1>>
    /\ <<dave_vel_x, dave_vel_y>> = <<-2, -2>>

----------------------------------------------------------------------------
(* C17: from the end of Dave's derive step until Ball's next integrate     *)
(* step Ball's velocity equals Dave's, component by component.             *)
C17_SameVelocity ==
    pc \in {"push_dave", "vblank", "commit", "update", "integrate_ball"} =>
        (x_velocity = dave_vel_x /\ y_velocity = dave_vel_y)

(* After the advance: the reading has changed, the two velocities are      *)
(* still the same non-zero pair with different components.                 *)
C17_Witness ==
    /\ pc = "integrate_ball" /\ frame >= 1
    /\ input.current # input.previous
    /\ <<x_velocity, y_velocity>> = <<2, -2>>
    /\ <<dave_vel_x, dave_vel_y>> = <<2, -2>>

----------------------------------------------------------------------------
(* C15: in every reachable state the loop can take a step, and when every  *)
(* step that can be taken is eventually taken (the vblank always comes),   *)
(* the commit and the input advance are each taken again and again.        *)
C15_NeverStops ==
    /\ [](ENABLED <<Next>>_vars)
    /\ []<><<Commit>>_vars
    /\ []<><<InputUpdate>>_vars

(* The player has let go long ago and nothing moves any more; the loop is  *)
(* waiting for the next vblank all the same.                               *)
C15_Witness ==
    /\ pc = "vblank" /\ frame = MaxFrames
    /\ input.previous = Released /\ input.current = Released
    /\ velocity = <<0, 0, 0, 0>>
    /\ display = object /\ ball_x # 50

----------------------------------------------------------------------------
(* C18: two runs that read the same buttons up to the update before some   *)
(* frame, and any buttons at the update that starts the frame, display     *)
(* Ball and Dave at the same positions at the commit of that frame; and    *)
(* runs that read the same buttons throughout are in the same state.       *)
C18_Determinism ==
    pc = "update" =>
      /\ \A s \in {"ball", "dave"} : display[s] = RunFrame(twin).display[s]
      /\ twin.input = input => RunFrame(twin) = TopOfLoop(input.previous, input.current)

(* The third commit is done.  The runs read different buttons at the last  *)
(* update and now have different velocities, yet both display Ball and     *)
(* Dave at the same place, away from where they started.                   *)
C18_Witness ==
    /\ pc = "update" /\ frame = 2
    /\ twin.input.current = [x |-> -1, y |-> 1, a |-> FALSE]
    /\ input.current = [x |-> 1, y |-> 0, a |-> TRUE]
    /\ RunFrame(twin).x_velocity = -1 /\ x_velocity = 2
    /\ display["ball"].x = 53 /\ RunFrame(twin).display["ball"].x = 53
    /\ display["dave"].y = 79 /\ RunFrame(twin).display["dave"].y = 79

====
